---- MODULE Spec2Model ----
(***************************************************************************)
(* Periodic-boundary geometry of mdevaluate (src/mdevaluate/pbc.py):       *)
(* pbc_diff_old, pbc_diff, whole, nojump and pbc_points.                   *)
(*                                                                         *)
(* Coordinates, box edges and masses are integers (a fixed-point grid);   *)
(* all arithmetic is exact.  Comparisons against box/2 and box/2*0.9 are   *)
(* stated after clearing denominators.  A numpy array is an object on a    *)
(* heap, so that the in-place operators of the code (+=) act on every     *)
(* name that refers to the same object.                                    *)
(***************************************************************************)
EXTENDS Integers, Sequences, FiniteSets, TLC

VARIABLES
    nojump_matrixes,  \* reader.nojump_matrixes: per axis, a sequence of rows (step) of per-atom counts
    box,              \* frame.box.diagonal(), the same in every frame of the reader
    heap,             \* the ndarray objects the cache refers to: ref -> array [atom][axis]
    cache,            \* reader._nojump_cache: OrderedDict as a sequence of [key, ref], oldest first
    inserted,         \* history: the keys in the order in which calls added them to the cache
    nojump_call,      \* the last nojump call: its arguments and what it returned
    pbc_diff_call,    \* the last pbc_diff / pbc_diff_old call
    pbc_points_call,  \* the last pbc_points call
    whole_call        \* the last whole call

vars == <<nojump_matrixes, box, heap, cache, inserted, nojump_call,
          pbc_diff_call, pbc_points_call, whole_call>>

NoCall == [op |-> "none"]

(***************************************************************************)
(* Bounds of the model.                                                    *)
(***************************************************************************)
NSteps == 3        \* rows of the jump matrices in Spec and SpecOOB
NAtoms == 2        \* atoms of the reader in the nojump specifications
NDim == 2          \* box axes in the nojump specifications
MaxOver == 1       \* how far past the last row an out-of-range step may lie

Atoms == 1..NAtoms
Dims == 1..NDim

Max(S) == CHOOSE x \in S : \A y \in S : y <= x
Min(S) == CHOOSE x \in S : \A y \in S : x <= y

(***************************************************************************)
(* nojump                                                                  *)
(***************************************************************************)
NOJUMP_CACHESIZE == 128

\* m[lo:hi].sum(axis=0)[a]: a slice clips to the rows that exist (the sum is
\* split in halves to keep the evaluation shallow)
RECURSIVE SliceSum(_, _, _, _)
SliceSum(m, lo, hi, a) ==
    LET top == IF hi > Len(m) THEN Len(m) ELSE hi
    IN  IF lo >= top THEN 0
        ELSE IF top = lo + 1 THEN m[lo + 1][a]
        ELSE SliceSum(m, lo, (lo + top) \div 2, a) + SliceSum(m, (lo + top) \div 2, top, a)

\* np.vstack([m[lo:hi].sum(axis=0) for m in nojump_matrixes]).T * box.diagonal()
SliceDelta(lo, hi) ==
    [a \in Atoms |-> [d \in Dims |-> SliceSum(nojump_matrixes[d], lo, hi, a) * box[d]]]

CacheKeys(c) == {c[i].key : i \in 1..Len(c)}
CacheRef(c, k) == c[CHOOSE i \in 1..Len(c) : c[i].key = k].ref

\* OrderedDict.__setitem__: an existing key keeps its place, a new key goes last
DictSet(c, k, r) ==
    IF k \in CacheKeys(c)
    THEN [i \in 1..Len(c) |-> IF c[i].key = k THEN [key |-> k, ref |-> r] ELSE c[i]]
    ELSE Append(c, [key |-> k, ref |-> r])

\* mutant of EvictOldest: popitem() removes the newest entry
EvictNewest(c) ==
    IF Len(c) > NOJUMP_CACHESIZE THEN SubSeq(c, 1, NOJUMP_CACHESIZE) ELSE c

\* while len(cache) > NOJUMP_CACHESIZE: cache.popitem(last=False)
EvictOldest(c) ==
    IF Len(c) > NOJUMP_CACHESIZE THEN SubSeq(c, Len(c) - NOJUMP_CACHESIZE + 1, Len(c)) ELSE c

\* a name for a new ndarray object
FreshRef(h) == Min({r \in 0..Cardinality(DOMAIN h) : r \notin DOMAIN h})

\* objects no cache entry refers to are garbage
Collect(h, c) == [r \in {c[i].ref : i \in 1..Len(c)} |-> h[r]]

ArrayAdd(x, y) == [a \in Atoms |-> [d \in Dims |-> x[a][d] + y[a][d]]]

\* frame - delta, frame and delta both restricted to the selection
Corrected(coords, delta, selection) ==
    [i \in 1..Len(selection) |->
        [d \in Dims |-> coords[selection[i]][d] - delta[selection[i]][d]]]

\* the usecache=True branch: the largest cached key <= step is the base, and
\* `delta += ...` adds to that cached ndarray in place before it is stored
\* again under frame.step
NojumpCached(step, selection, coords) ==
    LET i0s == {x \in CacheKeys(cache) : x <= step}
        hit == i0s # {}
        i0 == IF hit THEN Max(i0s) + 1 ELSE 0
        ref == IF hit THEN CacheRef(cache, Max(i0s)) ELSE FreshRef(heap)
        add == SliceDelta(i0, step + 1)
        heap1 == IF hit THEN [heap EXCEPT ![ref] = ArrayAdd(heap[ref], add)]
                 ELSE [r \in DOMAIN heap \cup {ref} |-> IF r = ref THEN add ELSE heap[r]]
        cache1 == EvictOldest(DictSet(cache, step, ref))
    IN  /\ cache' = cache1
        /\ heap' = Collect(heap1, cache1)
        /\ inserted' = IF step \in CacheKeys(cache) THEN inserted ELSE Append(inserted, step)
        /\ nojump_call' = [op |-> "nojump", step |-> step, selection |-> selection,
                           usecache |-> TRUE, frame |-> coords, raised |-> FALSE,
                           value |-> Corrected(coords, heap1[ref], selection)]

\* the usecache=False branch
NojumpUncached(step, selection, coords) ==
    /\ nojump_call' = [op |-> "nojump", step |-> step, selection |-> selection,
                       usecache |-> FALSE, frame |-> coords, raised |-> FALSE,
                       value |-> Corrected(coords, SliceDelta(0, step + 1), selection)]
    /\ UNCHANGED <<cache, heap, inserted>>

nojump(step, selection, usecache, coords) ==
    /\ IF usecache THEN NojumpCached(step, selection, coords)
       ELSE NojumpUncached(step, selection, coords)
    /\ UNCHANGED <<nojump_matrixes, box, pbc_diff_call, pbc_points_call, whole_call>>

\* ---- inputs of the nojump specifications ----
\* jump matrices with n rows: entry (d, t, a) in {-1, 0, 1}, from a pattern p
JumpMatrix(n, p) ==
    [d \in Dims |-> [t \in 1..n |-> [a \in Atoms |-> ((p[1] * t + p[2] * a + d) % 3) - 1]]]
Patterns == {<<0, 1>>, <<1, 0>>, <<1, 1>>, <<2, 1>>}
Boxes == {[d \in Dims |-> 2 + d], [d \in Dims |-> 5]}
\* atom_subset.selection: index arrays
Selections == {<<a>> : a \in Atoms} \cup {[i \in 1..NAtoms |-> i], [i \in 1..NAtoms |-> NAtoms + 1 - i]}
\* the raw coordinates of a frame, all atoms
FrameCoords == {[a \in Atoms |-> [d \in Dims |-> 0]], [a \in Atoms |-> [d \in Dims |-> a + 2 * d]]}

InitOthers ==
    /\ pbc_diff_call = NoCall
    /\ pbc_points_call = NoCall
    /\ whole_call = NoCall

InitReader(n, patterns, boxes) ==
    /\ \E p \in patterns : nojump_matrixes = JumpMatrix(n, p)
    /\ box \in boxes
    /\ heap = <<>>
    /\ cache = <<>>
    /\ inserted = <<>>
    /\ nojump_call = NoCall

Init ==
    /\ InitReader(NSteps, Patterns, Boxes)
    /\ InitOthers

\* calls whose step lies within the jump matrices
Next ==
    \E step \in 0..(NSteps - 1), selection \in Selections, usecache \in BOOLEAN,
       coords \in FrameCoords :
        nojump(step, selection, usecache, coords)

Spec == Init /\ [][Next]_vars

\* calls whose step may lie past the last row of the jump matrices
NextOOB ==
    \E step \in 0..(NSteps - 1 + MaxOver), selection \in Selections, usecache \in BOOLEAN,
       coords \in FrameCoords :
        nojump(step, selection, usecache, coords)

SpecOOB == Init /\ [][NextOOB]_vars

\* ---- a reader long enough for the cache to overflow ----
NStepsEvict == NOJUMP_CACHESIZE + 2
MaxInserts == NStepsEvict + 2

InitEvict ==
    /\ InitReader(NStepsEvict, {<<1, 1>>}, {[d \in Dims |-> 2 + d]})
    /\ InitOthers

\* the next step that is not in the cache: the first call picks the order of
\* the run (ascending, descending, or in strides of 7, each wrapping around)
NewSteps ==
    IF Len(inserted) >= MaxInserts THEN {}
    ELSE IF inserted = <<>> THEN {0, NStepsEvict - 1, 3}
    ELSE LET first == inserted[1]
             last == inserted[Len(inserted)]
         IN  IF first = 0 THEN {(last + 1) % NStepsEvict}
             ELSE IF first = NStepsEvict - 1 THEN {(last - 1) % NStepsEvict}
             ELSE {(last + 7) % NStepsEvict}

\* a step that is in the cache: its oldest or its newest key
CachedSteps == IF cache = <<>> THEN {} ELSE {cache[1].key, cache[Len(cache)].key}

NextEvict ==
    \E step \in NewSteps \cup CachedSteps, usecache \in BOOLEAN :
        nojump(step, [i \in 1..NAtoms |-> i], usecache, [a \in Atoms |-> [d \in Dims |-> a + 2 * d]])

SpecEvict == InitEvict /\ [][NextEvict]_vars

(***************************************************************************)
(* Claims about nojump                                                     *)
(***************************************************************************)
\* the correction the documentation asks for: box[d] times the crossings of
\* steps 0..step
RECURSIVE Crossings(_, _, _)
Crossings(d, a, step) ==
    IF step < 0 THEN 0 ELSE nojump_matrixes[d][step + 1][a] + Crossings(d, a, step - 1)
ExactCorrection(step) == [a \in Atoms |-> [d \in Dims |-> box[d] * Crossings(d, a, step)]]

CachedCall == nojump_call.op = "nojump" /\ nojump_call.usecache

\* C1: every nojump(frame, usecache=True) call with a step within the jump
\* matrices returns frame - box * (crossings of steps 0..frame.step) on the
\* selected atoms, whatever calls came before.
C1_CachedEqualsExact ==
    CachedCall =>
        nojump_call.value =
            Corrected(nojump_call.frame, ExactCorrection(nojump_call.step), nojump_call.selection)

\* C2: every cache entry holds, under key k and for all atoms, box * (crossings
\* of steps 0..k); a later call does not change an earlier entry.
C2_CacheEntriesExact ==
    \A i \in 1..Len(cache) : heap[cache[i].ref] = ExactCorrection(cache[i].key)

CacheKeySeq == [i \in 1..Len(cache) |-> cache[i].key]
LastN(s, n) == IF Len(s) > n THEN SubSeq(s, Len(s) - n + 1, Len(s)) ELSE s

\* C3: the cache never holds more than NOJUMP_CACHESIZE keys, and its keys are
\* the NOJUMP_CACHESIZE most recently inserted ones in insertion order: each
\* eviction removes the key inserted first, whatever the numeric order of the
\* steps and whether or not keys were queried again.
C3_EvictsOldestInserted ==
    /\ Len(cache) <= NOJUMP_CACHESIZE
    /\ CacheKeySeq = LastN(inserted, NOJUMP_CACHESIZE)

\* C3 witness: 129 distinct steps were inserted in descending order, the oldest
\* key was queried again by the last call, 128 keys remain and the first one
\* inserted is gone.
C3_Witness ==
    /\ Len(inserted) = NOJUMP_CACHESIZE + 1
    /\ Cardinality({inserted[i] : i \in 1..Len(inserted)}) = NOJUMP_CACHESIZE + 1
    /\ inserted[1] > inserted[2]
    /\ Len(cache) = NOJUMP_CACHESIZE
    /\ inserted[1] \notin CacheKeys(cache)
    /\ CachedCall /\ nojump_call.step = cache[1].key

\* C4: a call whose step is past the last row of the jump matrices raises
\* instead of returning a value.
C4_OutOfRangeRaises ==
    (nojump_call.op = "nojump" /\ nojump_call.step >= Len(nojump_matrixes[1])) =>
        nojump_call.raised

(***************************************************************************)
(* pbc_diff_old and pbc_diff                                               *)
(***************************************************************************)
MaxCoord == 7      \* components of v1 range over -MaxCoord..MaxCoord

None == <<>>

\* mutant of RoundHalfEven: a tie goes up
RoundHalfUp(n, d) == (2 * n + d) \div (2 * d)

\* numpy's round: to the nearest integer, a tie to the even one; n / d with d > 0
RoundHalfEven(n, d) ==
    LET q == n \div d
        r == n % d
    IN  IF 2 * r < d THEN q
        ELSE IF 2 * r > d THEN q + 1
        ELSE IF q % 2 = 0 THEN q ELSE q + 1

\* mutant of DiffOldComponent: the correction of v < -box/2 is missing
DiffOldComponentNoLower(x1, x2, b) ==
    LET v == (x1 % b) - (x2 % b)
    IN  IF 2 * v > b THEN v - b ELSE v

\* one component of pbc_diff_old with a box: v1 % box - v2 % box, then the two
\* corrections in turn (the second one reads the corrected v)
DiffOldComponent(x1, x2, b) ==
    LET v == (x1 % b) - (x2 % b)
        w == IF 2 * v > b THEN v - b ELSE v
    IN  IF 2 * w < -b THEN w + b ELSE w

pbc_diff_old(v1, v2, b) ==
    IF b = None THEN [d \in DOMAIN v1 |-> v1[d] - v2[d]]
    ELSE [d \in DOMAIN v1 |-> DiffOldComponent(v1[d], v2[d], b[d])]

\* one component of pbc_diff with a box: s = v / box; box * (s - s.round())
DiffComponent(x, b) == x - b * RoundHalfEven(x, b)

pbc_diff(v1, v2, b) ==
    LET v == IF v2 = None THEN v1 ELSE [d \in DOMAIN v1 |-> v1[d] - v2[d]]
    IN  IF b = None THEN v ELSE [d \in DOMAIN v |-> DiffComponent(v[d], b[d])]

\* ---- inputs ----
DiffVectors == [Dims -> -MaxCoord..MaxCoord]
DiffSecond == {[d \in Dims |-> 0], [d \in Dims |-> 3 * d - 7]}
DiffBoxes == {[d \in Dims |-> 4], [d \in Dims |-> 2 + d]}

InitNoReader ==
    /\ nojump_matrixes = <<>>
    /\ box = <<>>
    /\ heap = <<>>
    /\ cache = <<>>
    /\ inserted = <<>>
    /\ nojump_call = NoCall

\* the arguments of a call are drawn before it; v2 = None is pbc_diff(v, box=b)
InitDiffArgs ==
    \E v1 \in DiffVectors, v2 \in DiffSecond \cup {None}, b \in DiffBoxes \cup {None} :
        pbc_diff_call = [op |-> "pbc_diff", v1 |-> v1, v2 |-> v2, box |-> b,
                         called |-> {}, new |-> None, old |-> None]

\* pbc_diff(v1, v2, box) on the drawn arguments
PbcDiffCall ==
    /\ pbc_diff_call.op = "pbc_diff" /\ "pbc_diff" \notin pbc_diff_call.called
    /\ pbc_diff_call' =
        [pbc_diff_call EXCEPT !.called = @ \cup {"pbc_diff"},
                              !.new = pbc_diff(pbc_diff_call.v1, pbc_diff_call.v2, pbc_diff_call.box)]
    /\ UNCHANGED <<nojump_matrixes, box, heap, cache, inserted, nojump_call,
                   pbc_points_call, whole_call>>

\* pbc_diff_old(v1, v2, box) on the drawn arguments (it has no default for v2)
PbcDiffOldCall ==
    /\ pbc_diff_call.op = "pbc_diff" /\ "pbc_diff_old" \notin pbc_diff_call.called
    /\ pbc_diff_call.v2 # None
    /\ pbc_diff_call' =
        [pbc_diff_call EXCEPT !.called = @ \cup {"pbc_diff_old"},
                              !.old = pbc_diff_old(pbc_diff_call.v1, pbc_diff_call.v2, pbc_diff_call.box)]
    /\ UNCHANGED <<nojump_matrixes, box, heap, cache, inserted, nojump_call,
                   pbc_points_call, whole_call>>

InitDiff ==
    /\ InitNoReader
    /\ InitDiffArgs
    /\ pbc_points_call = NoCall
    /\ whole_call = NoCall

NextDiff == PbcDiffCall \/ PbcDiffOldCall

SpecDiff == InitDiff /\ [][NextDiff]_vars

(***************************************************************************)
(* Claims about pbc_diff and pbc_diff_old                                  *)
(***************************************************************************)
Abs(x) == IF x < 0 THEN -x ELSE x

\* the displacement a call folds, per component
Displacement(c) == IF c.v2 = None THEN c.v1 ELSE [d \in DOMAIN c.v1 |-> c.v1[d] - c.v2[d]]

\* v is an odd multiple of half of b
HalfBoxTie(v, b) == (2 * v) % b = 0 /\ v % b # 0

BothCalled ==
    pbc_diff_call.op = "pbc_diff" /\ pbc_diff_call.called = {"pbc_diff", "pbc_diff_old"}
BoxedDiff ==
    /\ pbc_diff_call.op = "pbc_diff" /\ "pbc_diff" \in pbc_diff_call.called
    /\ pbc_diff_call.box # None

\* C5 as stated: pbc_diff and pbc_diff_old return the same displacement on
\* every component, ties and out-of-box positions included.
C5_SameDisplacement == BothCalled => pbc_diff_call.new = pbc_diff_call.old

\* C5 amended: the two agree on every component where v1 - v2 is not an odd
\* multiple of half a box edge; at such a tie each returns +box/2 or -box/2
\* (the signs may differ).  Without a box both return v1 - v2.
C5_SameOffTies ==
    BothCalled =>
        IF pbc_diff_call.box = None THEN pbc_diff_call.new = pbc_diff_call.old
        ELSE \A d \in Dims :
            LET v == Displacement(pbc_diff_call)[d]
                b == pbc_diff_call.box[d]
            IN  IF HalfBoxTie(v, b)
                THEN /\ 2 * Abs(pbc_diff_call.new[d]) = b
                     /\ 2 * Abs(pbc_diff_call.old[d]) = b
                ELSE pbc_diff_call.new[d] = pbc_diff_call.old[d]

\* C5 witness: one call of both on positions outside [0, box) with a tie on
\* one axis, where the results differ, and no tie on another axis.
C5_Witness ==
    /\ BothCalled /\ pbc_diff_call.box # None
    /\ \E d \in Dims :
        /\ HalfBoxTie(Displacement(pbc_diff_call)[d], pbc_diff_call.box[d])
        /\ pbc_diff_call.new[d] # pbc_diff_call.old[d]
    /\ \E d \in Dims :
        /\ ~HalfBoxTie(Displacement(pbc_diff_call)[d], pbc_diff_call.box[d])
        /\ pbc_diff_call.v1[d] > pbc_diff_call.box[d]
        /\ pbc_diff_call.v2[d] < 0
        /\ pbc_diff_call.new[d] # Displacement(pbc_diff_call)[d]

\* C6: every component of pbc_diff(v, box=b) lies in [-b/2, b/2] and differs
\* from that of v by a whole number of box edges; when v is an odd multiple
\* of b/2 that whole number is the even one of the two nearest to v/b.
C6_FoldedIntoHalfBox ==
    BoxedDiff =>
        \A d \in Dims :
            LET v == Displacement(pbc_diff_call)[d]
                b == pbc_diff_call.box[d]
                r == pbc_diff_call.new[d]
            IN  /\ 2 * Abs(r) <= b
                /\ (v - r) % b = 0
                /\ HalfBoxTie(v, b) => ((v - r) \div b) % 2 = 0

\* C6 witness: pbc_diff(v, box=b) where v is 1.5 box edges on one axis and is
\* folded to -b/2 there, and lies more than one edge below zero on another.
C6_Witness ==
    /\ BoxedDiff /\ pbc_diff_call.v2 = None
    /\ \E d \in Dims :
        /\ 2 * pbc_diff_call.v1[d] = 3 * pbc_diff_call.box[d]
        /\ 2 * pbc_diff_call.new[d] = -pbc_diff_call.box[d]
    /\ \E d \in Dims :
        /\ pbc_diff_call.v1[d] < -pbc_diff_call.box[d]
        /\ ~HalfBoxTie(pbc_diff_call.v1[d], pbc_diff_call.box[d])

(***************************************************************************)
(* pbc_points                                                              *)
(***************************************************************************)
MaxPoints == 2     \* rows of the coordinates given to pbc_points

Axes == 1..3

\* the loops over x, y, z in range(-1, 2), in their order
AllShifts ==
    [k \in 1..27 |-> <<((k - 1) \div 9) - 1, (((k - 1) \div 3) % 3) - 1, ((k - 1) % 3) - 1>>]

\* mutant of Shifts: any() for all(), every shift with a zero component is skipped
ShiftsWithoutZeros == SelectSeq(AllShifts, LAMBDA vv : ~(\E x \in Axes : vv[x] = 0))

\* if not (vv == 0).all()
Shifts == SelectSeq(AllShifts, LAMBDA vv : ~(\A x \in Axes : vv[x] = 0))

\* coordinates + vv*box, one row
Translate(row, vv, b) == [x \in Axes |-> row[x] + vv[x] * b[x]]

\* allcoordinates after the loops: the copy of the coordinates, then one
\* translated block per shift
Concatenated(coordinates, b) ==
    LET n == Len(coordinates)
    IN  [j \in 1..(n * (Len(Shifts) + 1)) |->
            IF j <= n THEN coordinates[j]
            ELSE Translate(coordinates[((j - 1) % n) + 1], Shifts[(j - 1) \div n], b)]

\* np.tile(np.arange(len(coordinates)), (27))
TiledIndices(n) == [j \in 1..(27 * n) |-> (j - 1) % n]

\* x[mask]: the entries of x where the mask holds, in order
Compress(x, mask) ==
    LET kept == SelectSeq([j \in 1..Len(mask) |-> j], LAMBDA j : mask[j])
    IN  [i \in 1..Len(kept) |-> x[kept[i]]]

\* twice the center: box/2 by default
Center2(center, b) == IF center = None THEN b ELSE [x \in Axes |-> 2 * center[x]]

\* np.all(allcoordinates < center+box/2+thickness, axis=1), one row
BelowUpper(row, c2, b, thickness) ==
    \A x \in Axes : 2 * row[x] < c2[x] + b[x] + 2 * thickness
\* np.all(allcoordinates > center-box/2-thickness, axis=1), one row
AboveLower(row, c2, b, thickness) ==
    \A x \in Axes : 2 * row[x] > c2[x] - b[x] - 2 * thickness

\* allcoordinates[len(coordinates):]
DropFirst(x, n) == SubSeq(x, n + 1, Len(x))

pbc_points(coordinates, b, thickness, index, inclusive, center) ==
    LET c2 == Center2(center, b)
        all0 == Concatenated(coordinates, b)
        ind0 == TiledIndices(Len(coordinates))
        mask1 == [j \in 1..Len(all0) |-> BelowUpper(all0[j], c2, b, thickness)]
        all1 == IF thickness # 0 THEN Compress(all0, mask1) ELSE all0
        ind1 == IF thickness # 0 THEN Compress(ind0, mask1) ELSE ind0
        mask2 == [j \in 1..Len(all1) |-> AboveLower(all1[j], c2, b, thickness)]
        all2 == IF thickness # 0 THEN Compress(all1, mask2) ELSE all1
        ind2 == IF thickness # 0 THEN Compress(ind1, mask2) ELSE ind1
        drop == ~inclusive /\ thickness > 0
        all3 == IF drop THEN DropFirst(all2, Len(coordinates)) ELSE all2
        ind3 == IF drop THEN DropFirst(ind2, Len(coordinates)) ELSE ind2
    IN  [allcoordinates |-> all3, indices |-> IF index THEN ind3 ELSE None]

\* ---- inputs ----
PointRows == {<<1, 1, 1>>, <<5, 1, 2>>, <<0, 3, 3>>, <<-1, 2, 6>>}
PointArrays == UNION {[1..n -> PointRows] : n \in 0..MaxPoints}
PointBoxes == {<<4, 4, 4>>, <<4, 5, 6>>}
Thicknesses == {-1, 0, 1, 2}
Centers == {None, <<0, 0, 0>>}

InitPointsArgs ==
    \E coordinates \in PointArrays, b \in PointBoxes, thickness \in Thicknesses,
       index \in BOOLEAN, inclusive \in BOOLEAN, center \in Centers :
        pbc_points_call = [op |-> "pbc_points", coordinates |-> coordinates, box |-> b,
                           thickness |-> thickness, index |-> index,
                           inclusive |-> inclusive, center |-> center,
                           called |-> FALSE, allcoordinates |-> None, indices |-> None]

PbcPointsCall ==
    /\ pbc_points_call.op = "pbc_points" /\ ~pbc_points_call.called
    /\ LET c == pbc_points_call
           r == pbc_points(c.coordinates, c.box, c.thickness, c.index, c.inclusive, c.center)
       IN  pbc_points_call' = [c EXCEPT !.called = TRUE,
                                        !.allcoordinates = r.allcoordinates,
                                        !.indices = r.indices]
    /\ UNCHANGED <<nojump_matrixes, box, heap, cache, inserted, nojump_call,
                   pbc_diff_call, whole_call>>

InitPoints ==
    /\ InitNoReader
    /\ InitPointsArgs
    /\ pbc_diff_call = NoCall
    /\ whole_call = NoCall

NextPoints == PbcPointsCall

SpecPoints == InitPoints /\ [][NextPoints]_vars

(***************************************************************************)
(* Claims about pbc_points                                                 *)
(***************************************************************************)
PointsCalled == pbc_points_call.op = "pbc_points" /\ pbc_points_call.called

\* the 26 images of every point, each with the index of its original:
\* for every non-zero shift, in the order of the loops, every point in turn
ImagePairs(coordinates, b) ==
    LET n == Len(coordinates)
    IN  [j \in 1..(26 * n) |->
            LET vv == SelectSeq(AllShifts, LAMBDA s : s # <<0, 0, 0>>)[((j - 1) \div n) + 1]
                i == ((j - 1) % n) + 1
            IN  [row |-> [x \in Axes |-> coordinates[i][x] + vv[x] * b[x]], index |-> i - 1]]

\* a row lies strictly inside the box grown by the thickness around the center
InShell(row, c) ==
    \A x \in Axes :
        LET c2 == IF c.center = None THEN c.box[x] ELSE 2 * c.center[x]
        IN  /\ 2 * row[x] < c2 + c.box[x] + 2 * c.thickness
            /\ 2 * row[x] > c2 - c.box[x] - 2 * c.thickness

ShellImages(c) == SelectSeq(ImagePairs(c.coordinates, c.box), LAMBDA p : InShell(p.row, c))

\* C7: with inclusive=False and thickness > 0 the rows returned are exactly
\* the translated images that pass the shell filter, in order, and the
\* indices returned are those of their originals.
C7_ExactlyTheShellImages ==
    (PointsCalled /\ ~pbc_points_call.inclusive /\ pbc_points_call.thickness > 0) =>
        LET want == ShellImages(pbc_points_call)
        IN  /\ pbc_points_call.allcoordinates = [j \in 1..Len(want) |-> want[j].row]
            /\ pbc_points_call.index =>
                  pbc_points_call.indices = [j \in 1..Len(want) |-> want[j].index]

Occurrences(x, v) == Cardinality({j \in 1..Len(x) : x[j] = v})

TiledAll == PointsCalled /\ pbc_points_call.thickness = 0 /\ pbc_points_call.index

\* C8 as stated: with thickness=0 and index=True there are 27 * len(points)
\* rows and every original index occurs len(points) times in the indices.
C8_LenPointsOccurrences ==
    TiledAll =>
        /\ Len(pbc_points_call.allcoordinates) = 27 * Len(pbc_points_call.coordinates)
        /\ \A i \in 0..(Len(pbc_points_call.coordinates) - 1) :
              Occurrences(pbc_points_call.indices, i) = Len(pbc_points_call.coordinates)

\* C8 amended: with thickness=0 and index=True there are 27 * len(points)
\* rows, as many indices, and every original index occurs 27 times.
C8_TwentySevenOccurrences ==
    TiledAll =>
        /\ Len(pbc_points_call.allcoordinates) = 27 * Len(pbc_points_call.coordinates)
        /\ Len(pbc_points_call.indices) = 27 * Len(pbc_points_call.coordinates)
        /\ \A i \in 0..(Len(pbc_points_call.coordinates) - 1) :
              Occurrences(pbc_points_call.indices, i) = 27

\* C8 witness: two points tiled with thickness=0 and index=True (inclusive
\* False, which does not apply at thickness 0): 54 rows.
C8_Witness ==
    /\ TiledAll /\ ~pbc_points_call.inclusive
    /\ Len(pbc_points_call.coordinates) = 2
    /\ Len(pbc_points_call.allcoordinates) = 54

(***************************************************************************)
(* whole                                                                   *)
(***************************************************************************)
MaxWhole == 3      \* atoms of the frame given to whole

RECURSIVE SumOver(_, _)
SumOver(f, S) ==
    IF S = {} THEN 0 ELSE LET x == CHOOSE y \in S : TRUE IN f[x] + SumOver(f, S \ {x})

\* the atoms np.bincount puts in the bin of residue id r
Members(residue_ids, r) == {i \in 1..Len(residue_ids) : residue_ids[i] = r}

\* np.bincount(residue_ids, weights=c * frame.masses)[r], axis d
WeightedSum(frame, masses, residue_ids, r, d) ==
    SumOver([i \in 1..Len(frame) |-> frame[i][d] * masses[i]], Members(residue_ids, r))

\* np.bincount(residue_ids, weights=frame.masses)[r]
MassSum(masses, residue_ids, r) == SumOver(masses, Members(residue_ids, r))

\* cd = frame - coms, times the mass of the residue: cd[i][d] is CdNum / MassSum
CdNum(frame, masses, residue_ids, i, d) ==
    frame[i][d] * MassSum(masses, residue_ids, residue_ids[i])
        - WeightedSum(frame, masses, residue_ids, residue_ids[i], d)

\* cor after the two np.where assignments: -box where cd > box/2*0.9, then
\* +box where cd < -box/2*0.9
FirstCorrection(frame, masses, residue_ids, b) ==
    [i \in 1..Len(frame) |-> [d \in Dims |->
        LET num == CdNum(frame, masses, residue_ids, i, d)
            m == MassSum(masses, residue_ids, residue_ids[i])
        IN  IF 20 * num < -9 * b[d] * m THEN b[d]
            ELSE IF 20 * num > 9 * b[d] * m THEN -b[d]
            ELSE 0]]

\* duomask = np.bincount(residue_ids)[1:][residue_ids - 1] == 2, then
\* duomask[::2] = False: the even positions of the array (counted from 0) are
\* cleared, which are the odd atoms counted from 1
Duomask(residue_ids) ==
    [i \in 1..Len(residue_ids) |->
        Cardinality(Members(residue_ids, residue_ids[i])) = 2 /\ i % 2 = 0]

\* cor[duomask] = 0
MaskedCorrection(cor, residue_ids) ==
    [i \in 1..Len(cor) |-> [d \in Dims |-> IF Duomask(residue_ids)[i] THEN 0 ELSE cor[i][d]]]

whole(frame, masses, residue_ids, b) ==
    LET cor0 == FirstCorrection(frame, masses, residue_ids, b)
        cor == MaskedCorrection(cor0, residue_ids)
    IN  [cor0 |-> cor0, cor |-> cor,
         value |-> [i \in 1..Len(frame) |-> [d \in Dims |-> frame[i][d] + cor[i][d]]]]

\* ---- inputs ----
WholeRows == {[d \in Dims |-> 0], [d \in Dims |-> 19], [d \in Dims |-> 18 * (d % 2) + 1],
              [d \in Dims |-> 10 + 8 * (d % 2)]}
WholeBoxes == {[d \in Dims |-> 20]}
\* residue ids: positive, the atoms of a residue stored together
ResidueIds(n) ==
    {r \in [1..n -> 1..n] :
        /\ r[1] = 1
        /\ \A i \in 1..(n - 1) : r[i + 1] \in {r[i], r[i] + 1}}
WholeMasses(n) == {[i \in 1..n |-> 1], [i \in 1..n |-> IF i = 1 THEN 2 ELSE 1]}

InitWholeArgs ==
    \E n \in 1..MaxWhole :
        \E frame \in [1..n -> WholeRows], residue_ids \in ResidueIds(n),
           masses \in WholeMasses(n), b \in WholeBoxes :
            whole_call = [op |-> "whole", frame |-> frame, residue_ids |-> residue_ids,
                          masses |-> masses, box |-> b, called |-> FALSE,
                          cor0 |-> None, cor |-> None, value |-> None]

WholeCall ==
    /\ whole_call.op = "whole" /\ ~whole_call.called
    /\ LET c == whole_call
           r == whole(c.frame, c.masses, c.residue_ids, c.box)
       IN  whole_call' = [c EXCEPT !.called = TRUE, !.cor0 = r.cor0, !.cor = r.cor,
                                   !.value = r.value]
    /\ UNCHANGED <<nojump_matrixes, box, heap, cache, inserted, nojump_call,
                   pbc_diff_call, pbc_points_call>>

InitWhole ==
    /\ InitNoReader
    /\ InitWholeArgs
    /\ pbc_diff_call = NoCall
    /\ pbc_points_call = NoCall

NextWhole == WholeCall

SpecWhole == InitWhole /\ [][NextWhole]_vars

(***************************************************************************)
(* Claims about whole                                                      *)
(***************************************************************************)
WholeCalled == whole_call.op = "whole" /\ whole_call.called

ResidueOf(i) == {j \in 1..Len(whole_call.residue_ids) :
                    whole_call.residue_ids[j] = whole_call.residue_ids[i]}

\* the second atom of a residue of exactly two atoms
SecondOfPair(i) == Cardinality(ResidueOf(i)) = 2 /\ \E j \in ResidueOf(i) : j < i

\* C9: after whole, every atom that is not the second atom of a two-atom
\* residue lies on every axis within half a box edge of the centre of mass of
\* its residue, the centre of mass taken over the returned positions:
\* |x - S/M| <= box/2, stated as 2 * |x*M - S| <= box * M.
C9_WithinHalfBoxOfCom ==
    WholeCalled =>
        \A i \in 1..Len(whole_call.frame) : \A d \in Dims :
            ~SecondOfPair(i) =>
                LET m == SumOver(whole_call.masses, ResidueOf(i))
                    sum == SumOver([j \in 1..Len(whole_call.frame) |->
                                       whole_call.value[j][d] * whole_call.masses[j]],
                                   ResidueOf(i))
                IN  2 * Abs(whole_call.value[i][d] * m - sum) <= whole_call.box[d] * m

\* C10: in every two-atom residue the first atom keeps its correction and the
\* second atom's correction is zero, wherever the pair starts in the atom
\* array; atoms of other residues keep their correction.
C10_SecondOfPairZeroed ==
    WholeCalled =>
        \A i \in 1..Len(whole_call.frame) :
            /\ SecondOfPair(i) => \A d \in Dims : whole_call.cor[i][d] = 0
            /\ ~SecondOfPair(i) => whole_call.cor[i] = whole_call.cor0[i]

====
